---------------------------- MODULE Spec2Model ----------------------------
(***************************************************************************)
(* Webhook ingestion and dispatch of go-cryptopay.                         *)
(*                                                                         *)
(*   src/webhook.go          Webhook.Run, Webhook.verify, Webhook.error    *)
(*   src/unnamed/part_008    Client.On, Client.Once, Client.DeleteHandler, *)
(*                           Client.DeleteAllHandlersFor                   *)
(*                                                                         *)
(* The bodies of Webhook.Bind, Webhook.DeleteHandlerByIndex,               *)
(* Webhook.DeleteHandlers, of the Dispatcher and of the Listener (the HTTP *)
(* transport adapter) are not among the sources; they are modelled from    *)
(* sections 4.3, 4.4, 4.5 and 5 of the specification.                      *)
(***************************************************************************)
EXTENDS Integers, Sequences, FiniteSets, TLC

VARIABLES
    vReq,           \* SpecVerify: the request handed to Webhook.verify
    vKey,           \* SpecVerify: the tokenHash of the receiver
    vOut,           \* SpecVerify: what verify returned (Nil before the call)
    tokenHash,      \* Webhook.tokenHash
    cfg,            \* which of OnWebhookError / OnInHandlerError are non-nil
    handlers,       \* Webhook.handlers: update type -> sequence of handlers
                    \* (what the slice stored for the type shows)
    slices,         \* Webhook.handlers: update type -> the slice stored for
                    \* it (its backing array and its length)
    arrays,         \* the backing arrays of the handler slices
    nextId,         \* identity given to the next handler value created
    bindRet,        \* handler id -> the index Bind returned for it, and the
                    \* index a once-wrapper recorded for itself
    oncePc,         \* per caller of Client.Once: position inside Once
    deliveries,     \* one record per request received by the worker
    wpc,            \* position of the worker goroutine of Run
    dispatchLog,    \* calls of Dispatcher.Dispatch, in order
    webhookErrLog,  \* calls of OnWebhookError, in order
    handlerErrLog,  \* calls of OnInHandlerError, in order
    tasks,          \* detached handler invocations in flight
    invoked,        \* handler invocations that have happened; stale tells that
                    \* the registry had changed since the lookup by then
    removedLog,     \* what the once-wrappers' removals removed: by is the
                    \* wrapper, removed the handler taken out (0: it panicked)
    crashed,        \* an unrecovered panic has ended the process
    cIn,            \* SpecCalls: a registry and the call made on it
    cOut,           \* SpecCalls: the registry after the call, what it returned
    arrivals,       \* SpecHttp: requests that have reached the Listener, in the
                    \* order it hands them to the worker
    responses,      \* SpecHttp: the HTTP response given to each of them
    aIn,            \* SpecApi: the REST-client call being made and its arguments
    aOut,           \* SpecApi: what that call returned (or that it panicked)
    webhook,        \* SpecLife: the Webhook value Run is called on
    runs            \* SpecLife: the calls of Webhook.Run made on it, each with
                    \* its worker goroutine, its channels and its Listener

vars == <<vReq, vKey, vOut, tokenHash, cfg, handlers, slices, arrays, nextId, bindRet, oncePc,
          deliveries, wpc, dispatchLog, webhookErrLog, handlerErrLog, tasks,
          invoked, removedLog, crashed, cIn, cOut, arrivals, responses,
          aIn, aOut, webhook, runs>>

verifyVars == <<vReq, vKey, vOut>>
callVars == <<cIn, cOut>>
httpVars == <<arrivals, responses>>
apiVars == <<aIn, aOut>>
lifeVars == <<webhook, runs>>
memVars == <<slices, arrays>>
runVars == <<tokenHash, cfg, handlers, slices, arrays, nextId, bindRet, oncePc, deliveries, wpc,
             dispatchLog, webhookErrLog, handlerErrLog, tasks, invoked,
             removedLog, crashed>>

Nil == "nil"

-----------------------------------------------------------------------------
(* Bounds of the model. *)

\* Bytes in a MAC (sha256.Size in the program; one byte keeps the set of
\* signatures enumerable).
MacSize == 1
\* Signature strings are enumerated up to 2*MacSize + SigExtra characters.
SigExtra == 1
\* Requests the worker receives in one run.
MaxDeliveries == 2
\* Handler values created in one run.
MaxHandlers == 2
\* Goroutines calling Client.Once at the same time.
MaxOnceCallers == 1
\* Handlers per update type in the registries SpecCalls starts from.
MaxSeq == 3
\* Largest Count given to GetInvoicesOptions.QueryParams (from -1 upwards).
MaxCount == 1001
\* Calls of Webhook.Run on one Webhook.
MaxRuns == 2

-----------------------------------------------------------------------------
(* Bytes, hex strings and the MAC. *)

\* Characters a signature header is drawn from: two hex digits, an upper-case
\* hex digit and one character that is no hex digit.
SigChars == {"0", "a", "A", "g"}

\* encoding/hex fromHexChar: the value of a hex digit, ok = FALSE otherwise.
fromHexChar(c) ==
    IF c = "0" THEN [v |-> 0, ok |-> TRUE]
    ELSE IF c = "a" THEN [v |-> 10, ok |-> TRUE]
    ELSE IF c = "A" THEN [v |-> 10, ok |-> TRUE]
    ELSE [v |-> 0, ok |-> FALSE]

\* encoding/hex DecodeString: pairs of hex digits to bytes; an odd length or
\* a character that is no hex digit is an error.
DecodeString(s) ==
    LET n == Len(s)
        good == \A i \in 1..n : fromHexChar(s[i]).ok
    IN  IF n % 2 = 0 /\ good
        THEN [bytes |-> [j \in 1..(n \div 2) |->
                            16 * fromHexChar(s[2*j - 1]).v + fromHexChar(s[2*j]).v],
              err |-> FALSE]
        ELSE [bytes |-> <<>>, err |-> TRUE]

\* encoding/hex EncodeToString restricted to the bytes the MAC produces.
hexDigit(v) == IF v = 0 THEN "0" ELSE "a"
EncodeToString(bytes) ==
    [k \in 1..(2 * Len(bytes)) |->
        IF k % 2 = 1 THEN hexDigit(bytes[(k + 1) \div 2] \div 16)
        ELSE hexDigit(bytes[k \div 2] % 16)]

\* Byte values the MAC takes: those two hex digits of SigChars can spell.
MacPalette == <<0, 10, 160, 170>>

\* Request bodies: a byte string that is no JSON at all, or a JSON object whose
\* update_id and update_type members are absent, well typed or ill typed.
UidFields == {"absent", "-1", "str"}
TypeFields == {"absent", "invoice_paid", "test"}
Bodies ==
    {[valid |-> FALSE, uid |-> "absent", utype |-> "absent"]}
    \cup [valid : {TRUE}, uid : UidFields, utype : TypeFields]

\* A number standing for the bytes of a body (distinct bodies, distinct bytes).
BodyCode(b) ==
    (IF b.valid THEN 1 ELSE 0)
    + 2 * (IF b.uid = "absent" THEN 0 ELSE IF b.uid = "-1" THEN 1 ELSE 2)
    + 6 * (IF b.utype = "absent" THEN 0 ELSE IF b.utype = "invoice_paid" THEN 1 ELSE 2)

\* crypto/hmac with SHA-256, abstracted: a deterministic function of the key
\* and the message with a fixed-size output.
HMAC(key, body) ==
    [j \in 1..MacSize |-> MacPalette[((key * j + BodyCode(body)) % 4) + 1]]

\* A mutated comparison: only the common prefix of the two MACs is compared.
hmacEqualPrefix(a, b) ==
    \A i \in 1..(IF Len(a) < Len(b) THEN Len(a) ELSE Len(b)) : a[i] = b[i]

\* crypto/hmac Equal (subtle.ConstantTimeCompare): same length and the same
\* byte at every position.
hmacEqual(a, b) ==
    /\ Len(a) = Len(b)
    /\ \A i \in 1..Len(a) : a[i] = b[i]

\* The nil *WebhookUpdate. A decoded update has isNil = FALSE, also when all its
\* fields are zero.
NilUpdate == [isNil |-> TRUE, Id |-> 0, UpdateType |-> ""]

\* encoding/json Unmarshal into a fresh WebhookUpdate: a syntax error or a
\* member of the wrong JSON type is an error; an absent member leaves the
\* field at its zero value.
Unmarshal(body) ==
    IF ~body.valid \/ body.uid = "str"
    THEN [update |-> NilUpdate, err |-> TRUE]
    ELSE [update |-> [isNil |-> FALSE,
                      Id |-> IF body.uid = "-1" THEN -1 ELSE 0,
                      UpdateType |-> IF body.utype = "absent" THEN "" ELSE body.utype],
          err |-> FALSE]

\* A mutated verify: the body is unmarshalled before the MAC is compared.
verifyParseFirst(key, request) ==
    LET u == Unmarshal(request.Body)
        sig == DecodeString(request.Signature)
    IN  IF u.err
        THEN [update |-> NilUpdate, err |-> "unmarshal", macOk |-> FALSE, parsed |-> TRUE]
        ELSE IF sig.err
        THEN [update |-> NilUpdate, err |-> "hex", macOk |-> FALSE, parsed |-> TRUE]
        ELSE IF ~hmacEqual(HMAC(key, request.Body), sig.bytes)
        THEN [update |-> NilUpdate, err |-> "signature", macOk |-> FALSE, parsed |-> TRUE]
        ELSE [update |-> u.update, err |-> Nil, macOk |-> TRUE, parsed |-> TRUE]

\* The error value ErrorWrongSignature among the errors verify returns.
ErrorWrongSignature == "signature"

\* Webhook.verify: err is Nil, or which of the three returns was taken;
\* macOk records that hmac.Equal returned true, parsed that json.Unmarshal
\* was called.
verify(key, request) ==
    LET sig == DecodeString(request.Signature)
    IN  IF sig.err
        THEN [update |-> NilUpdate, err |-> "hex", macOk |-> FALSE, parsed |-> FALSE]
        ELSE IF ~hmacEqual(HMAC(key, request.Body), sig.bytes)
        THEN [update |-> NilUpdate, err |-> "signature", macOk |-> FALSE, parsed |-> FALSE]
        ELSE LET u == Unmarshal(request.Body)
             IN  IF u.err
                 THEN [update |-> NilUpdate, err |-> "unmarshal", macOk |-> TRUE, parsed |-> TRUE]
                 ELSE [update |-> u.update, err |-> Nil, macOk |-> TRUE, parsed |-> TRUE]

-----------------------------------------------------------------------------
(* SpecVerify: Webhook.verify applied to every request of the bounded sets. *)

Keys == {1, 2}

SigStrings == UNION {[1..n -> SigChars] : n \in 0..(2 * MacSize + SigExtra)}

\* vOut before verify has been called.
NilResult ==
    [called |-> FALSE,
     res |-> [update |-> NilUpdate, err |-> Nil, macOk |-> FALSE, parsed |-> FALSE]]

\* One call of Webhook.verify: the request handed over, what came back.
VerifyCall ==
    /\ vOut = NilResult
    /\ vOut' = [called |-> TRUE, res |-> verify(vKey, vReq)]
    /\ UNCHANGED <<vReq, vKey>>
    /\ UNCHANGED <<runVars, callVars, httpVars, apiVars, lifeVars>>

-----------------------------------------------------------------------------
(* The handler registry: Webhook.handlers and the operations on it. *)

UpdateTypes == {"invoice_paid", "test"}
EmptyMap == [x \in {} |-> <<>>]
Wildcard == "*"

\* handlers[t] of a Go map: the zero value (an empty slice) for an absent key.
Get(m, t) == IF t \in DOMAIN m THEN m[t] ELSE <<>>

\* handlers[t] = s
Put(m, t, s) == [x \in (DOMAIN m) \cup {t} |-> IF x = t THEN s ELSE m[x]]

\* append(a[:i], a[i+1:]...) for 0 <= i < len(a): a without its element at
\* the 0-based index i.
RemoveAt(a, i) == [k \in 1..(Len(a) - 1) |-> IF k <= i THEN a[k] ELSE a[k + 1]]

\* The nil handler, and the zero value of an array element.
NoHandler == [id |-> 0, once |-> FALSE, i |-> 0, t |-> ""]

\* A slice is its backing array (0: none, the nil slice) and its length; its
\* capacity is the length of the array. All slices here start at element 0.
NilSlice == [arr |-> 0, len |-> 0]
SliceOf(ss, t) == IF t \in DOMAIN ss THEN ss[t] ELSE NilSlice
Cap(mem, s) == IF s.arr = 0 THEN 0 ELSE Len(mem[s.arr])
Elems(mem, s) == [k \in 1..s.len |-> mem[s.arr][k]]

\* What the map shows: for every type the elements of its slice.
View(ss, mem) == [t \in DOMAIN ss |-> Elems(mem, ss[t])]

\* append(s, h): within the capacity the element is written into the backing
\* array that s shares with every other slice of it; beyond it a new array of
\* twice the capacity (1 for none) gets the elements and h.
append(mem, s, h) ==
    IF s.len < Cap(mem, s)
    THEN [mem |-> [mem EXCEPT ![s.arr][s.len + 1] = h],
          slice |-> [s EXCEPT !.len = s.len + 1]]
    ELSE LET newcap == IF Cap(mem, s) = 0 THEN 1 ELSE 2 * Cap(mem, s)
             fresh == [k \in 1..newcap |->
                         IF k <= s.len THEN mem[s.arr][k]
                         ELSE IF k = s.len + 1 THEN h
                         ELSE NoHandler]
         IN  [mem |-> Append(mem, fresh),
              slice |-> [arr |-> Len(mem) + 1, len |-> s.len + 1]]

\* append(a[:i], a[i+1:]...) for 0 <= i < len(a): the elements after index i
\* of the backing array, as it is now, move down by one inside that array;
\* the result is the same array with a length one less than a's. The element
\* that stood last stays in the array.
RemoveAtInPlace(mem, a, i) ==
    [mem |-> [mem EXCEPT ![a.arr] =
                 [k \in 1..Len(@) |-> IF i < k /\ k < a.len THEN @[k + 1] ELSE @[k]]],
     slice |-> [a EXCEPT !.len = a.len - 1]]

\* A mutated Bind: the handler is put in front of the sequence of its type.
BindAtFront(m, t, h) ==
    [handlers |-> Put(m, t, <<h>> \o Get(m, t)), index |-> 0]

\* Webhook.Bind: the handler is appended to the sequence of its type; the
\* result is the new registry and the index of the handler in it.
Bind(m, t, h) ==
    [handlers |-> Put(m, t, Append(Get(m, t), h)), index |-> Len(Get(m, t))]

\* A mutated DeleteHandlerByIndex: the last handler is dropped, whatever i.
DeleteHandlerByIndexLast(m, t, i) ==
    IF 0 <= i /\ i < Len(Get(m, t))
    THEN Put(m, t, SubSeq(Get(m, t), 1, Len(Get(m, t)) - 1))
    ELSE m

\* Webhook.DeleteHandlerByIndex: the handler at index i is removed and the later
\* ones move down by one; an index out of range changes nothing.
DeleteHandlerByIndex(m, t, i) ==
    IF 0 <= i /\ i < Len(Get(m, t))
    THEN Put(m, t, RemoveAt(Get(m, t), i))
    ELSE m

\* A mutated DeleteHandlers: every entry is removed, whatever the type.
DeleteHandlersAll(m, t) == EmptyMap

\* A mutated DeleteHandlers: "*" is taken for an update type like any other.
DeleteHandlersNoWildcard(m, t) == [x \in (DOMAIN m) \ {t} |-> m[x]]

\* Webhook.DeleteHandlers: the entry of the type is removed; "*" removes all.
DeleteHandlers(m, t) ==
    IF t = Wildcard THEN EmptyMap
    ELSE [x \in (DOMAIN m) \ {t} |-> m[x]]

\* A mutated lookup: the registry's own sequence, read when a handler is taken.
LiveView(atLookup, now) == now

\* The lookup of dispatch hands out a copy of the sequence registered for the
\* type: a handler taken from it later is the one that was there at the lookup
\* (atLookup), whatever the registry holds by then (now).
Snapshot(atLookup, now) == atLookup

OnceCallers == 1..MaxOnceCallers
Idle == [pc |-> "idle", t |-> "", i |-> 0]

\* Once calls that have read the length and not yet bound their wrapper.
PendingOnce == {c \in OnceCallers : oncePc[c].pc = "bind"}

\* Client.On / Client.OnInvoicePaid: Bind, the index is returned to the caller.
On(t) ==
    /\ ~crashed
    /\ nextId + Cardinality(PendingOnce) <= MaxHandlers
    /\ LET h == [id |-> nextId, once |-> FALSE, i |-> 0, t |-> t]
           r == Bind(handlers, t, h)
           m == append(arrays, SliceOf(slices, t), h)
       IN  /\ handlers' = r.handlers
           /\ arrays' = m.mem
           /\ slices' = Put(slices, t, m.slice)
           /\ bindRet' = bindRet @@ (nextId :> [index |-> r.index, once |-> FALSE, i |-> 0])
    /\ nextId' = nextId + 1
    /\ UNCHANGED <<tokenHash, cfg, oncePc, deliveries, wpc, dispatchLog,
                   webhookErrLog, handlerErrLog, tasks, invoked, removedLog, crashed>>
    /\ UNCHANGED <<verifyVars, callVars, httpVars, apiVars, lifeVars>>

\* Client.Once, first statement: i := len(c.w.handlers[updateType]).
OnceLen(c, t) ==
    /\ ~crashed
    /\ oncePc[c].pc = "idle"
    /\ nextId + Cardinality(PendingOnce) <= MaxHandlers
    /\ oncePc' = [oncePc EXCEPT ![c] = [pc |-> "bind", t |-> t, i |-> Len(Get(handlers, t))]]
    /\ UNCHANGED <<tokenHash, cfg, handlers, nextId, bindRet, deliveries, wpc,
                   dispatchLog, webhookErrLog, handlerErrLog, tasks, invoked,
                   removedLog, crashed>>
    /\ UNCHANGED <<memVars, verifyVars, callVars, httpVars, apiVars, lifeVars>>

\* The read of the map in Once's first statement takes no lock. When it
\* coincides with a write of the map by another goroutine (the Bind or the
\* removal of a call another client is making, the assignment of a wrapper),
\* the runtime may end the process: "concurrent map read and map write".
\* Another client may call at any time.
OnceLenRace(c, t) ==
    /\ ~crashed
    /\ oncePc[c].pc = "idle"
    /\ nextId + Cardinality(PendingOnce) <= MaxHandlers
    /\ crashed' = TRUE
    /\ UNCHANGED <<tokenHash, cfg, handlers, nextId, bindRet, oncePc, deliveries,
                   wpc, dispatchLog, webhookErrLog, handlerErrLog, tasks, invoked,
                   removedLog>>
    /\ UNCHANGED <<memVars, verifyVars, callVars, httpVars, apiVars, lifeVars>>

\* Client.Once, second statement: the wrapper that closes over i is bound.
OnceBind(c) ==
    /\ ~crashed
    /\ oncePc[c].pc = "bind"
    /\ LET t == oncePc[c].t
           h == [id |-> nextId, once |-> TRUE, i |-> oncePc[c].i, t |-> t]
           r == Bind(handlers, t, h)
           m == append(arrays, SliceOf(slices, t), h)
       IN  /\ handlers' = r.handlers
           /\ arrays' = m.mem
           /\ slices' = Put(slices, t, m.slice)
           /\ bindRet' = bindRet @@ (nextId :> [index |-> r.index, once |-> TRUE, i |-> h.i])
    /\ nextId' = nextId + 1
    /\ oncePc' = [oncePc EXCEPT ![c] = Idle]
    /\ UNCHANGED <<tokenHash, cfg, deliveries, wpc, dispatchLog, webhookErrLog,
                   handlerErrLog, tasks, invoked, removedLog, crashed>>
    /\ UNCHANGED <<verifyVars, callVars, httpVars, apiVars, lifeVars>>

\* Client.DeleteHandler. The removal is done in the backing array of the
\* slice, as the wrapper of Once does its own.
DeleteHandler(t, i) ==
    /\ ~crashed
    /\ handlers' = DeleteHandlerByIndex(handlers, t, i)
    /\ IF 0 <= i /\ i < SliceOf(slices, t).len
       THEN LET m == RemoveAtInPlace(arrays, slices[t], i)
            IN  /\ arrays' = m.mem
                /\ slices' = Put(slices, t, m.slice)
       ELSE UNCHANGED <<arrays, slices>>
    /\ UNCHANGED <<tokenHash, cfg, nextId, bindRet, oncePc, deliveries, wpc,
                   dispatchLog, webhookErrLog, handlerErrLog, tasks, invoked,
                   removedLog, crashed>>
    /\ UNCHANGED <<verifyVars, callVars, httpVars, apiVars, lifeVars>>

\* Client.DeleteAllHandlersFor.
DeleteAllHandlersFor(t) ==
    /\ ~crashed
    /\ handlers' = DeleteHandlers(handlers, t)
    /\ slices' = DeleteHandlers(slices, t)
    /\ UNCHANGED arrays
    /\ UNCHANGED <<tokenHash, cfg, nextId, bindRet, oncePc, deliveries, wpc,
                   dispatchLog, webhookErrLog, handlerErrLog, tasks, invoked,
                   removedLog, crashed>>
    /\ UNCHANGED <<verifyVars, callVars, httpVars, apiVars, lifeVars>>

-----------------------------------------------------------------------------
(* SpecCalls: one call of Client.On, Client.DeleteHandler or               *)
(* Client.DeleteAllHandlersFor on every registry of the bounded set.        *)

\* A plain handler value.
Plain(id, t) == [id |-> id, once |-> FALSE, i |-> 0, t |-> t]

\* The registries the calls are made on: per update type no entry (-1) or a
\* sequence of 0..MaxSeq handlers; the handlers of "invoice_paid" are numbered
\* from 1, those of "test" from 11.
SeqOf(t, n) == [k \in 1..n |-> Plain((IF t = "test" THEN 10 ELSE 0) + k, t)]
RegistryOf(n) == [t \in {x \in UpdateTypes : n[x] >= 0} |-> SeqOf(t, n[t])]
Registries == {RegistryOf(n) : n \in [UpdateTypes -> -1..MaxSeq]}

\* The handler a call of On binds.
NewHandler(t) == Plain(99, t)

\* What a call hands back to its caller: the index of On, or nothing at all
\* (DeleteHandler and DeleteAllHandlersFor have no result).
Index(n) == [kind |-> "index", index |-> n]
NoResult == [kind |-> "none", index |-> 0]

\* Client.On: return c.w.Bind(updateType, handler).
ClientOn(m, t, h) ==
    [handlers |-> Bind(m, t, h).handlers, ret |-> Index(Bind(m, t, h).index)]

\* Client.DeleteHandler: c.w.DeleteHandlerByIndex(updateType, i); nothing is
\* returned.
ClientDeleteHandler(m, t, i) ==
    [handlers |-> DeleteHandlerByIndex(m, t, i), ret |-> NoResult]

\* Client.DeleteAllHandlersFor: c.w.DeleteHandlers(updateType); nothing is
\* returned.
ClientDeleteAllHandlersFor(m, t) ==
    [handlers |-> DeleteHandlers(m, t), ret |-> NoResult]

CallInputs ==
    [op : {"On"}, m : Registries, t : UpdateTypes, i : {0}]
    \cup [op : {"DeleteHandler"}, m : Registries, t : UpdateTypes, i : -1..(MaxSeq + 1)]
    \cup [op : {"DeleteAllHandlersFor"}, m : Registries, t : UpdateTypes \cup {Wildcard}, i : {0}]

NoCall == [op |-> "none", m |-> EmptyMap, t |-> "", i |-> 0]
NilCallResult == [called |-> FALSE, handlers |-> EmptyMap, ret |-> NoResult]

CallOn ==
    /\ cIn.op = "On"
    /\ ~cOut.called
    /\ LET r == ClientOn(cIn.m, cIn.t, NewHandler(cIn.t))
       IN  cOut' = [called |-> TRUE, handlers |-> r.handlers, ret |-> r.ret]
    /\ UNCHANGED <<cIn, verifyVars, runVars, httpVars, apiVars, lifeVars>>

CallDeleteHandler ==
    /\ cIn.op = "DeleteHandler"
    /\ ~cOut.called
    /\ LET r == ClientDeleteHandler(cIn.m, cIn.t, cIn.i)
       IN  cOut' = [called |-> TRUE, handlers |-> r.handlers, ret |-> r.ret]
    /\ UNCHANGED <<cIn, verifyVars, runVars, httpVars, apiVars, lifeVars>>

CallDeleteAllHandlersFor ==
    /\ cIn.op = "DeleteAllHandlersFor"
    /\ ~cOut.called
    /\ LET r == ClientDeleteAllHandlersFor(cIn.m, cIn.t)
       IN  cOut' = [called |-> TRUE, handlers |-> r.handlers, ret |-> r.ret]
    /\ UNCHANGED <<cIn, verifyVars, runVars, httpVars, apiVars, lifeVars>>

-----------------------------------------------------------------------------
(* Webhook.Run: the worker goroutine, the Dispatcher and the handlers. *)

\* Webhook.error: the callback the type switch on `other` selects, "none" when
\* no case matches or the callback of the matching case is nil. `other` is
\* "writer" (a non-nil io.Writer), "update" (a *WebhookUpdate) or "nil".
error(c, other) ==
    IF other = "writer" /\ c.OnWebhookError THEN "OnWebhookError"
    ELSE IF other = "update" /\ c.OnInHandlerError THEN "OnInHandlerError"
    ELSE "none"

\* Bodies and signature headers of the requests the Listener hands over.
DeliveryBodies ==
    {[valid |-> FALSE, uid |-> "absent", utype |-> "absent"],
     [valid |-> TRUE, uid |-> "-1", utype |-> "invoice_paid"],
     [valid |-> TRUE, uid |-> "-1", utype |-> "test"],
     [valid |-> TRUE, uid |-> "str", utype |-> "invoice_paid"]}
\* The hex MAC of the body, the same with its first digit changed, a header
\* that is no hex string, a hex string shorter than a MAC and no header at all.
DeliverySigs(key, body) ==
    LET good == EncodeToString(HMAC(key, body))
    IN  {good,
         [good EXCEPT ![1] = IF good[1] = "0" THEN "a" ELSE "0"],
         <<"g", "0">>,
         SubSeq(good, 1, Len(good) - 2),
         <<>>}

\* Run, case req := <-w.updates, up to the call of Dispatch: verify, and
\* w.error(err, req.BodyWriter) when verify returned an error. bw tells whether
\* req.BodyWriter is non-nil.
Receive(body, sig, bw) ==
    /\ ~crashed
    /\ wpc = "select"
    /\ Len(deliveries) < MaxDeliveries
    /\ LET r == verify(tokenHash, [Signature |-> sig, Body |-> body])
           d == Len(deliveries) + 1
           target == IF r.err # Nil
                     THEN error(cfg, IF bw THEN "writer" ELSE "nil")
                     ELSE "none"
       IN  /\ deliveries' = Append(deliveries,
                  [err |-> r.err, macOk |-> r.macOk, parsed |-> r.parsed,
                   upd |-> r.update, bw |-> bw, dispatched |-> FALSE,
                   derr |-> Nil, snapshot |-> <<>>])
           /\ webhookErrLog' = IF target = "OnWebhookError"
                               THEN Append(webhookErrLog, [d |-> d, err |-> r.err])
                               ELSE webhookErrLog
           /\ handlerErrLog' = IF target = "OnInHandlerError"
                               THEN Append(handlerErrLog, [d |-> d, err |-> r.err, upd |-> r.update])
                               ELSE handlerErrLog
    /\ wpc' = "dispatch"
    /\ UNCHANGED <<tokenHash, cfg, handlers, nextId, bindRet, oncePc, dispatchLog,
                   tasks, invoked, removedLog, crashed>>
    /\ UNCHANGED <<memVars, verifyVars, callVars, httpVars, apiVars, lifeVars>>

\* The Dispatcher's lookup: the handlers registered for the type of the update
\* it was given.
Lookup(m, upd) == Get(m, upd.UpdateType)

\* The sequence a Dispatch call walks. For a nil update, which Run passes on
\* after a rejection, there is no type to look up: a call that returns has
\* started nothing (the call may also not return, see DispatchNilPanics).
Walked(m, upd) == IF upd.isNil THEN <<>> ELSE Lookup(m, upd)

\* A mutated fan-out: the last handler of the looked-up sequence is left out.
DetachedButLast(d, snap) ==
    {[d |-> d, k |-> k, pc |-> "call", h |-> NoHandler, a |-> NilSlice, cut |-> 0] : k \in 1..(Len(snap) - 1)}

\* The detached invocations the Dispatcher starts for delivery d: one per
\* handler of the looked-up sequence.
Detached(d, snap) ==
    {[d |-> d, k |-> k, pc |-> "call", h |-> NoHandler, a |-> NilSlice, cut |-> 0] : k \in 1..Len(snap)}

\* A mutated worker: a Dispatch that returned an error is called again.
DispatchRetry(derr) ==
    /\ ~crashed
    /\ wpc = "dispatch"
    /\ LET d == Len(deliveries)
           upd == deliveries[d].upd
           snap == Walked(handlers, upd)
       IN  /\ dispatchLog' = Append(dispatchLog, [d |-> d, upd |-> upd])
           /\ deliveries' = [deliveries EXCEPT ![d].dispatched = TRUE,
                                               ![d].derr = derr,
                                               ![d].snapshot = snap]
           /\ tasks' = tasks \cup Detached(d, snap)
    /\ wpc' = IF derr # Nil THEN "dispatch" ELSE "select"
    /\ UNCHANGED <<tokenHash, cfg, handlers, nextId, bindRet, oncePc, invoked,
                   removedLog, crashed, webhookErrLog, handlerErrLog>>
    /\ UNCHANGED <<memVars, verifyVars, callVars, httpVars, apiVars, lifeVars>>

\* Run, the rest of the case: w.d.Dispatch(upd), and w.error(err, nil) when it
\* returned an error. The Dispatcher looks the handlers up, starts their
\* invocations and returns; derr is the error it returns.
Dispatch(derr) ==
    /\ ~crashed
    /\ wpc = "dispatch"
    /\ LET d == Len(deliveries)
           upd == deliveries[d].upd
           snap == Walked(handlers, upd)
           target == IF derr # Nil THEN error(cfg, "nil") ELSE "none"
       IN  /\ dispatchLog' = Append(dispatchLog, [d |-> d, upd |-> upd])
           /\ deliveries' = [deliveries EXCEPT ![d].dispatched = TRUE,
                                               ![d].derr = derr,
                                               ![d].snapshot = snap]
           /\ tasks' = tasks \cup Detached(d, snap)
           /\ webhookErrLog' = IF target = "OnWebhookError"
                               THEN Append(webhookErrLog, [d |-> d, err |-> derr])
                               ELSE webhookErrLog
           /\ handlerErrLog' = IF target = "OnInHandlerError"
                               THEN Append(handlerErrLog, [d |-> d, err |-> derr, upd |-> upd])
                               ELSE handlerErrLog
    /\ wpc' = "select"
    /\ UNCHANGED <<tokenHash, cfg, handlers, nextId, bindRet, oncePc, invoked,
                   removedLog, crashed>>
    /\ UNCHANGED <<memVars, verifyVars, callVars, httpVars, apiVars, lifeVars>>

\* Run, w.d.Dispatch(upd) with upd == nil, the Dispatcher reading the type of
\* the update it was given: a nil pointer dereference, which nothing recovers.
\* The call is made and the process ends in it.
DispatchNilPanics ==
    /\ ~crashed
    /\ wpc = "dispatch"
    /\ deliveries[Len(deliveries)].upd.isNil
    /\ dispatchLog' = Append(dispatchLog,
           [d |-> Len(deliveries), upd |-> deliveries[Len(deliveries)].upd])
    /\ crashed' = TRUE
    /\ UNCHANGED <<tokenHash, cfg, handlers, nextId, bindRet, oncePc, deliveries,
                   wpc, webhookErrLog, handlerErrLog, tasks, invoked, removedLog>>
    /\ UNCHANGED <<memVars, verifyVars, callVars, httpVars, apiVars, lifeVars>>

\* One detached invocation: the handler at position k of the looked-up sequence
\* is called with the update. A once-wrapper goes on to remove itself.
Invoke(task) ==
    /\ ~crashed
    /\ task \in tasks
    /\ task.pc = "call"
    /\ LET atLookup == deliveries[task.d].snapshot
           now == Lookup(handlers, deliveries[task.d].upd)
           s == Snapshot(atLookup, now)
       IN  IF task.k > Len(s)
           THEN /\ tasks' = tasks \ {task}
                /\ UNCHANGED invoked
           ELSE LET h == s[task.k]
                IN  /\ invoked' = invoked \cup
                           {[d |-> task.d, k |-> task.k, id |-> h.id, once |-> h.once,
                             stale |-> (now # atLookup)]}
                    /\ tasks' = IF h.once
                                THEN (tasks \ {task}) \cup
                                     {[task EXCEPT !.pc = "read", !.h = h]}
                                ELSE tasks \ {task}
    /\ UNCHANGED <<tokenHash, cfg, handlers, nextId, bindRet, oncePc, deliveries,
                   wpc, dispatchLog, webhookErrLog, handlerErrLog, removedLog, crashed>>
    /\ UNCHANGED <<memVars, verifyVars, callVars, httpVars, apiVars, lifeVars>>

\* The wrapper of Client.Once after handler(update): a := c.w.handlers[updateType].
\* a is the slice stored in the map: it shares its backing array.
WrapperRead(task) ==
    /\ ~crashed
    /\ task \in tasks
    /\ task.pc = "read"
    /\ tasks' = (tasks \ {task}) \cup
                {[task EXCEPT !.pc = "append", !.a = SliceOf(slices, task.h.t)]}
    /\ UNCHANGED <<tokenHash, cfg, handlers, nextId, bindRet, oncePc, deliveries,
                   wpc, dispatchLog, webhookErrLog, handlerErrLog, invoked,
                   removedLog, crashed>>
    /\ UNCHANGED <<memVars, verifyVars, callVars, httpVars, apiVars, lifeVars>>

\* The right-hand side of the wrapper's last statement: append(a[:i], a[i+1:]...).
\* a[i+1:] panics when i >= len(a), and nothing recovers the panic; otherwise
\* the elements move inside the backing array, which the slice in the map and
\* the a of every other wrapper may share.
WrapperAppend(task) ==
    /\ ~crashed
    /\ task \in tasks
    /\ task.pc = "append"
    /\ IF task.h.i >= task.a.len
       THEN /\ crashed' = TRUE
            /\ removedLog' = removedLog \cup {[by |-> task.h.id, removed |-> 0]}
            /\ UNCHANGED <<handlers, arrays, tasks>>
       ELSE LET m == RemoveAtInPlace(arrays, task.a, task.h.i)
            IN  /\ arrays' = m.mem
                /\ handlers' = View(slices, m.mem)
                /\ tasks' = (tasks \ {task}) \cup
                       {[task EXCEPT !.pc = "write", !.a = m.slice,
                                     !.cut = arrays[task.a.arr][task.h.i + 1].id]}
                /\ UNCHANGED <<crashed, removedLog>>
    /\ UNCHANGED slices
    /\ UNCHANGED <<tokenHash, cfg, nextId, bindRet, oncePc, deliveries, wpc,
                   dispatchLog, webhookErrLog, handlerErrLog, invoked>>
    /\ UNCHANGED <<verifyVars, callVars, httpVars, apiVars, lifeVars>>

\* The assignment of the wrapper's last statement: c.w.handlers[updateType] =
\* the slice append returned.
WrapperWrite(task) ==
    /\ ~crashed
    /\ task \in tasks
    /\ task.pc = "write"
    /\ slices' = Put(slices, task.h.t, task.a)
    /\ handlers' = Put(handlers, task.h.t, Elems(arrays, task.a))
    /\ removedLog' = removedLog \cup {[by |-> task.h.id, removed |-> task.cut]}
    /\ tasks' = tasks \ {task}
    /\ UNCHANGED <<tokenHash, cfg, nextId, bindRet, oncePc, deliveries, wpc,
                   dispatchLog, webhookErrLog, handlerErrLog, invoked, crashed>>
    /\ UNCHANGED <<arrays, verifyVars, callVars, httpVars, apiVars, lifeVars>>

\* The wrapper reads and writes the map under no lock. When its read or its
\* assignment coincides with the assignment of another wrapper, the runtime
\* may end the process: "concurrent map writes", "concurrent map read and map
\* write".
MapRaceWithWrapper(task, other) ==
    /\ ~crashed
    /\ task \in tasks
    /\ other \in tasks
    /\ other # task
    /\ task.pc \in {"read", "write"}
    /\ other.pc = "write"
    /\ crashed' = TRUE
    /\ UNCHANGED <<tokenHash, cfg, handlers, nextId, bindRet, oncePc, deliveries,
                   wpc, dispatchLog, webhookErrLog, handlerErrLog, tasks, invoked,
                   removedLog>>
    /\ UNCHANGED <<memVars, verifyVars, callVars, httpVars, apiVars, lifeVars>>

\* The same when the assignment of a wrapper coincides with the read of the
\* map by the lookup of Dispatch: whatever lock the lookup holds, the wrapper
\* takes none.
MapRaceWithLookup(task) ==
    /\ ~crashed
    /\ wpc = "dispatch"
    /\ task \in tasks
    /\ task.pc = "write"
    /\ crashed' = TRUE
    /\ UNCHANGED <<tokenHash, cfg, handlers, nextId, bindRet, oncePc, deliveries,
                   wpc, dispatchLog, webhookErrLog, handlerErrLog, tasks, invoked,
                   removedLog>>
    /\ UNCHANGED <<memVars, verifyVars, callVars, httpVars, apiVars, lifeVars>>

\* The same when the wrapper's read or assignment coincides with a write of
\* the map by a call a client is making (the Bind of On or Once, a removal):
\* a client may call at any time, and the wrapper takes no lock.
MapRaceWithClient(task) ==
    /\ ~crashed
    /\ task \in tasks
    /\ task.pc \in {"read", "write"}
    /\ crashed' = TRUE
    /\ UNCHANGED <<tokenHash, cfg, handlers, nextId, bindRet, oncePc, deliveries,
                   wpc, dispatchLog, webhookErrLog, handlerErrLog, tasks, invoked,
                   removedLog>>
    /\ UNCHANGED <<memVars, verifyVars, callVars, httpVars, apiVars, lifeVars>>

-----------------------------------------------------------------------------
(* The Listener and the HTTP responses (transport adapter, sections 4.5,   *)
(* 5 and 6 of the specification; only the Listener interface is among the  *)
(* sources).                                                                *)

StatusOK == 200
StatusBadRequest == 400
\* The fixed body of the response to a rejection with ErrorWrongSignature
\* (sections 4.5 and 6 of the specification).
wrongSignature == "wrong request signature"

\* Bodies of the requests posted to the Listener: no JSON, and an invoice_paid
\* update with update_id -1.
HttpBodies ==
    {[valid |-> FALSE, uid |-> "absent", utype |-> "absent"],
     [valid |-> TRUE, uid |-> "-1", utype |-> "invoice_paid"]}

\* A POST reaches the Listener; the task serving it goes on to hand the request
\* to the worker over the updates channel.
Post(body, sig) ==
    /\ ~crashed
    /\ Len(arrivals) < MaxDeliveries
    /\ arrivals' = Append(arrivals, [body |-> body, sig |-> sig])
    /\ UNCHANGED responses
    /\ UNCHANGED <<verifyVars, callVars, runVars, apiVars, lifeVars>>

\* Listener.Listen, updates <- WebhookRequest{...}: the send meets the receive
\* of the worker, which goes on as in Receive. The channel has no buffer: a
\* request waits in arrivals until the worker is back at its select.
Listen ==
    /\ Len(deliveries) < Len(arrivals)
    /\ Receive(arrivals[Len(deliveries) + 1].body, arrivals[Len(deliveries) + 1].sig, TRUE)

\* w.d.Dispatch(upd) is called and never returns: the worker stays in the call.
DispatchHangs ==
    /\ ~crashed
    /\ wpc = "dispatch"
    /\ dispatchLog' = Append(dispatchLog,
           [d |-> Len(deliveries), upd |-> deliveries[Len(deliveries)].upd])
    /\ wpc' = "hung"
    /\ UNCHANGED <<tokenHash, cfg, handlers, nextId, bindRet, oncePc, deliveries,
                   webhookErrLog, handlerErrLog, tasks, invoked, removedLog, crashed>>
    /\ UNCHANGED <<memVars, verifyVars, callVars, httpVars, apiVars, lifeVars>>

\* The handler invocations of delivery d that are still to happen.
PendingCalls(d) == {task \in tasks : task.d = d /\ task.pc = "call"}

\* A mutated adapter: the response waits until the handlers have been called.
ReadyAfterHandlers(d) ==
    \/ deliveries[d].err # Nil
    \/ deliveries[d].dispatched /\ PendingCalls(d) = {}

\* When the response to delivery d can be given: it was rejected, or its
\* dispatch has been handed off.
Ready(d) ==
    \/ deliveries[d].err # Nil
    \/ deliveries[d].dispatched

\* The response to a delivery, decided by the error verify returned for it:
\* 400 and the fixed body for ErrorWrongSignature, 400 and the message of the
\* error for any other error, 200 and no body for an accepted delivery.
Response(del) ==
    IF del.err = ErrorWrongSignature
    THEN [status |-> StatusBadRequest, body |-> wrongSignature]
    ELSE IF del.err = "hex"
    THEN [status |-> StatusBadRequest, body |-> "cannot decode request signature"]
    ELSE IF del.err = "unmarshal"
    THEN [status |-> StatusBadRequest, body |-> "cannot unmarshal body to WebhookUpdate"]
    ELSE [status |-> StatusOK, body |-> ""]

\* The response to delivery d is sent.
Respond(d) ==
    /\ ~crashed
    /\ d \in 1..Len(deliveries)
    /\ d \notin DOMAIN responses
    /\ Ready(d)
    /\ responses' = (d :> Response(deliveries[d])) @@ responses
    /\ UNCHANGED arrivals
    /\ UNCHANGED <<verifyVars, callVars, runVars, apiVars, lifeVars>>

-----------------------------------------------------------------------------
(* The REST client: query parameters, GetInvoices and NewClient.  A string the
   client builds is a sequence of tokens (single characters, or whole names
   made of letters only), so that formatting, joining, escaping and encoding
   are computed; the empty string is the empty sequence.  A pointer is a
   record with the field nil. *)

MainNetHost == "https://pay.crypt.bot"
TestNetHost == "https://testnet-pay.crypt.bot"
emptyQuery == <<>>
\* The name of an API method, like every string here a sequence of tokens.
getInvoicesMethod == <<"getInvoices">>
DefaultClient == "http.DefaultClient"

NilPtr == [nil |-> TRUE]
Ptr(v) == [nil |-> FALSE, v |-> v]

\* strconv.Itoa and strconv.FormatInt(i, 10).
Digits == <<"0", "1", "2", "3", "4", "5", "6", "7", "8", "9">>
RECURSIVE Itoa(_)
Itoa(n) ==
    IF n < 0 THEN <<"-">> \o Itoa(-n)
    ELSE IF n < 10 THEN <<Digits[n + 1]>>
    ELSE Itoa(n \div 10) \o <<Digits[(n % 10) + 1]>>

\* strings.Join.
RECURSIVE Join(_, _)
Join(elems, sep) ==
    IF elems = <<>> THEN <<>>
    ELSE IF Len(elems) = 1 THEN elems[1]
    ELSE elems[1] \o <<sep>> \o Join(Tail(elems), sep)

\* url.QueryEscape on the characters the parameters are made of: letters,
\* digits, '-' and '_' stay, a space becomes '+', a comma is percent-encoded.
RECURSIVE QueryEscape(_)
QueryEscape(s) ==
    IF s = <<>> THEN <<>>
    ELSE (IF Head(s) = "," THEN <<"%", "2", "C">>
          ELSE IF Head(s) = " " THEN <<"+">>
          ELSE <<Head(s)>>) \o QueryEscape(Tail(s))

\* The parameter names of getInvoices in the order url.Values.Encode emits
\* them (sorted by key).
QueryKeys == <<"asset", "count", "invoices_ids", "offset", "status">>

RECURSIVE EncodeFrom(_, _)
EncodeFrom(values, i) ==
    IF i > Len(QueryKeys) THEN <<>>
    ELSE LET k == QueryKeys[i]
             rest == EncodeFrom(values, i + 1)
         IN  IF k \notin DOMAIN values THEN rest
             ELSE <<k, "=">> \o QueryEscape(values[k])
                    \o (IF rest = <<>> THEN <<>> ELSE <<"&">> \o rest)

\* url.Values.Encode: "k=v" for every key, sorted by key, joined with '&'.
Encode(values) == EncodeFrom(values, 1)

\* url.Values.Set / map assignment.
SetKey(values, k, v) ==
    [x \in DOMAIN values \cup {k} |-> IF x = k THEN v ELSE values[x]]

\* createEncodeQuery: only the non-empty values are added, then encoded.
createEncodeQuery(params) ==
    Encode([k \in {x \in DOMAIN params : params[x] # emptyQuery} |-> params[k]])

\* GetInvoicesOptions.QueryParams of ApiCore (InvoiceIds are strings): the
\* encoded query string.
QueryParams(opt) ==
    LET params == [k \in {"asset", "status", "offset", "invoices_ids"} |->
                     CASE k = "asset" -> opt.Asset
                       [] k = "status" -> opt.Status
                       [] k = "offset" -> Itoa(opt.Offset)
                       [] k = "invoices_ids" -> Join(opt.InvoiceIds, ",")]
    IN  IF (0 < opt.Count /\ opt.Count < 1000) /\ opt.Count # 100
        THEN createEncodeQuery(SetKey(params, "count", Itoa(opt.Count)))
        ELSE createEncodeQuery(params)

\* joinInt64: items[0] is read before the length is looked at, so an empty
\* slice panics (index out of range).
RECURSIVE joinRest(_, _)
joinRest(items, sep) ==
    IF items = <<>> THEN <<>>
    ELSE <<sep>> \o Itoa(Head(items)) \o joinRest(Tail(items), sep)

joinInt64(items, sep) ==
    IF Len(items) = 0 THEN [panic |-> TRUE, val |-> <<>>]
    ELSE [panic |-> FALSE, val |-> Itoa(items[1]) \o joinRest(Tail(items), sep)]

EmptyValues == [k \in {} |-> <<>>]

\* GetInvoicesOptions.QueryParams of the request-based client (InvoiceIds are
\* int64): the url.Values, every Set kept whether empty or not.
QueryParamsValues(opt) ==
    LET ids == joinInt64(opt.InvoiceIds, ",")
        params == [k \in {"asset", "status", "invoices_ids", "offset"} |->
                     CASE k = "asset" -> opt.Asset
                       [] k = "status" -> opt.Status
                       [] k = "invoices_ids" -> ids.val
                       [] k = "offset" -> Itoa(opt.Offset)]
    IN  IF ids.panic THEN [panic |-> TRUE, val |-> EmptyValues]
        ELSE IF (0 < opt.Count /\ opt.Count < 1000) /\ opt.Count # 100
        THEN [panic |-> FALSE, val |-> SetKey(params, "count", Itoa(opt.Count))]
        ELSE [panic |-> FALSE, val |-> params]

\* GetInvoicesRequest.Query: r.Options.QueryParams() has a value receiver, so
\* the call through a nil Options dereferences nil and panics.
Query(r) ==
    IF r.Options.nil THEN [panic |-> TRUE, val |-> EmptyValues]
    ELSE QueryParamsValues(r.Options.v)

\* ApiCore.urlFmt.
urlFmt(c, method, queryParams) ==
    LET methodUrl == <<c.url, "/api/">> \o method
    IN  IF queryParams = emptyQuery THEN methodUrl
        ELSE methodUrl \o <<"?">> \o queryParams

\* What the server does with a request: it answers ok with items, answers
\* with an API error, answers with a body that is not the JSON of the
\* response, or cannot be reached.
Servers == {"ok", "apiError", "garbage", "unreachable"}
Items == <<"invoice">>
NoItems == <<>>

\* The outcome of a call of the client: a panic, or the URL requested and the
\* values returned.
PanicOutcome == [done |-> TRUE, panic |-> TRUE, url |-> <<>>, items |-> NoItems, err |-> Nil]
Outcome(url, items, err) ==
    [done |-> TRUE, panic |-> FALSE, url |-> url, items |-> items, err |-> err]

HexChars ==
    {Digits[k] : k \in 1..Len(Digits)} \cup
    {"a", "b", "c", "d", "e", "f", "A", "B", "C", "D", "E", "F"}

\* The part of a URL before its query.
RECURSIVE PathOf(_)
PathOf(url) ==
    IF url = <<>> \/ Head(url) = "?" THEN <<>>
    ELSE <<Head(url)>> \o PathOf(Tail(url))

\* http.NewRequest parses the URL and fails on a '%' of the path that two hex
\* digits do not follow ("invalid URL escape"); the query is not looked into.
InvalidURLEscape(url) ==
    LET p == PathOf(url)
    IN  \E k \in 1..Len(p) :
            /\ p[k] = "%"
            /\ ~(k + 2 <= Len(p) /\ p[k + 1] \in HexChars /\ p[k + 2] \in HexChars)

\* ApiCore.apiCall: GET of urlFmt(method, queryParams), the body decoded into
\* dest. The error of http.NewRequest, of httpClient.Do or of the decoding is
\* returned; url is the URL requested, empty when no request was sent.
apiCall(c, method, queryParams, server) ==
    LET url == urlFmt(c, method, queryParams)
    IN  IF InvalidURLEscape(url)
        THEN [url |-> <<>>, err |-> "invalid URL escape", Ok |-> FALSE, Items |-> NoItems]
        ELSE IF server = "unreachable"
        THEN [url |-> url, err |-> "transport", Ok |-> FALSE, Items |-> NoItems]
        ELSE IF server = "garbage"
        THEN [url |-> url, err |-> "decode", Ok |-> FALSE, Items |-> NoItems]
        ELSE IF server = "apiError"
        THEN [url |-> url, err |-> Nil, Ok |-> FALSE, Items |-> NoItems]
        ELSE [url |-> url, err |-> Nil, Ok |-> TRUE, Items |-> Items]

\* ApiCore.GetInvoices: the options are encoded only when opt is not nil.
ApiCoreGetInvoices(c, opt, server) ==
    apiCall(c, getInvoicesMethod,
            IF ~opt.nil THEN QueryParams(opt.v) ELSE emptyQuery, server)

\* Client.GetInvoices over ApiCore.
ClientGetInvoicesCore(c, opt, server) ==
    LET invoices == ApiCoreGetInvoices(c, opt, server)
    IN  IF invoices.err # Nil THEN Outcome(invoices.url, NoItems, invoices.err)
        ELSE IF ~invoices.Ok THEN Outcome(invoices.url, NoItems, "ApiError")
        ELSE Outcome(invoices.url, invoices.Items, Nil)

\* Api.Do: the request's Query() is encoded into the URL of its Endpoint()
\* and the response is decoded.
Do(c, request, server) ==
    LET q == Query(request)
    IN  IF q.panic THEN [panic |-> TRUE, url |-> <<>>, err |-> Nil, Ok |-> FALSE, Items |-> NoItems]
        ELSE [panic |-> FALSE] @@ apiCall(c, getInvoicesMethod, Encode(q.val), server)

\* doRequest and Client.GetInvoices over requests: GetInvoicesRequest{Options:
\* opt} is handed to Api.Do whatever opt is.
ClientGetInvoices(c, opt, server) ==
    LET resp == Do(c, [Options |-> opt], server)
    IN  IF resp.panic THEN PanicOutcome
        ELSE IF resp.err # Nil THEN Outcome(resp.url, NoItems, resp.err)
        ELSE IF ~resp.Ok THEN Outcome(resp.url, NoItems, "ApiError")
        ELSE Outcome(resp.url, resp.Items, Nil)

\* NewApi.
NewApi(token, url, httpClient) ==
    [token |-> token, url |-> url, httpClient |-> httpClient]

\* NewClient without the defaults.
NewClientNoDefaults(settings) ==
    IF settings.Token = "" THEN [done |-> TRUE, panic |-> TRUE, api |-> NewApi("", "", Nil)]
    ELSE [done |-> TRUE, panic |-> FALSE,
          api |-> NewApi(settings.Token, settings.ApiHost, settings.HttpClient)]

\* NewClient: panics on an empty token; http.DefaultClient and MainNetHost
\* stand in for an unset HttpClient and ApiHost.  (The Webhook it also builds
\* is the one of the other sections.)
NewClient(settings) ==
    IF settings.Token = "" THEN [done |-> TRUE, panic |-> TRUE, api |-> NewApi("", "", Nil)]
    ELSE LET httpClient == IF settings.HttpClient = Nil THEN DefaultClient
                           ELSE settings.HttpClient
             apiHost == IF settings.ApiHost = "" THEN MainNetHost
                        ELSE settings.ApiHost
         IN  [done |-> TRUE, panic |-> FALSE,
              api |-> NewApi(settings.Token, apiHost, httpClient)]

\* The calls SpecApi makes.
Counts == (-1)..MaxCount
AssetValues == {<<>>, <<"BTC">>}
StatusValues == {<<>>, <<"paid">>}
Offsets == {0, 12}
InvoiceIdInts == {<<>>, <<3>>, <<3, 42>>}
FewCounts == {0, 5}

OptionsOf(counts) ==
    [Asset : AssetValues, Status : StatusValues, Offset : Offsets, Count : counts,
     InvoiceIds : InvoiceIdInts]

\* The options as a caller of ApiCore writes them: there InvoiceIds are
\* strings, the decimal numerals of the ids.
StringIds(opt) ==
    [opt EXCEPT !.InvoiceIds = [i \in 1..Len(opt.InvoiceIds) |-> Itoa(opt.InvoiceIds[i])]]
StringIdsPtr(opt) == IF opt.nil THEN NilPtr ELSE Ptr(StringIds(opt.v))

Versions == {"ApiCore", "Request"}
TheApi == NewApi("0", MainNetHost, DefaultClient)

\* Method names and query strings given to apiCall directly: getInvoices, the
\* "%^&escape test" of TestApiCore_apiCall and a name with a valid escape; no
\* query, a count, and a query with an invalid escape.
Methods == {getInvoicesMethod, <<"%", "^", "&", "escape", " ", "test">>,
            <<"get", "%", "2", "0", "Me">>}
Queries == {emptyQuery, <<"count", "=", "5">>, <<"asset", "=", "%", "^">>}

ApiInputs ==
    UNION {
      [op : {"QueryParams"}, version : Versions, opt : OptionsOf(Counts)],
      [op : {"GetInvoices"}, version : Versions, server : Servers,
       opt : {NilPtr} \cup {Ptr(o) : o \in OptionsOf(FewCounts)}],
      [op : {"apiCall"}, method : Methods, query : Queries, server : Servers],
      [op : {"NewClient"},
       settings : [Token : {"", "0", "5675:test_token"},
                   ApiHost : {"", TestNetHost, "http://127.0.0.1:8080"},
                   HttpClient : {Nil, "server.Client()"}]]
    }

NoApiCall == [op |-> "none"]
NilApiResult == [done |-> FALSE]

CallQueryParams ==
    /\ aIn.op = "QueryParams"
    /\ ~aOut.done
    /\ aOut' = IF aIn.version = "ApiCore"
               THEN [done |-> TRUE, panic |-> FALSE, query |-> QueryParams(StringIds(aIn.opt))]
               ELSE [done |-> TRUE] @@ QueryParamsValues(aIn.opt)
    /\ UNCHANGED <<aIn, verifyVars, callVars, runVars, httpVars, lifeVars>>

CallGetInvoices ==
    /\ aIn.op = "GetInvoices"
    /\ ~aOut.done
    /\ aOut' = IF aIn.version = "ApiCore"
               THEN ClientGetInvoicesCore(TheApi, StringIdsPtr(aIn.opt), aIn.server)
               ELSE ClientGetInvoices(TheApi, aIn.opt, aIn.server)
    /\ UNCHANGED <<aIn, verifyVars, callVars, runVars, httpVars, lifeVars>>

CallApiCall ==
    /\ aIn.op = "apiCall"
    /\ ~aOut.done
    /\ aOut' = [done |-> TRUE, panic |-> FALSE]
                  @@ apiCall(TheApi, aIn.method, aIn.query, aIn.server)
    /\ UNCHANGED <<aIn, verifyVars, callVars, runVars, httpVars, lifeVars>>

CallNewClient ==
    /\ aIn.op = "NewClient"
    /\ ~aOut.done
    /\ aOut' = NewClient(aIn.settings)
    /\ UNCHANGED <<aIn, verifyVars, callVars, runVars, httpVars, lifeVars>>

-----------------------------------------------------------------------------
(* The life of Webhook.Run: its calls on one Webhook, the worker goroutine
   each call starts, the channels it makes and the Listener it blocks in.
   What the worker does with a request is the subject of the sections above;
   here a request is only received and handled. *)

\* The nil channel; the channels made by Run are numbered from 1.
NilChan == 0

\* A call of Run that is blocked in Listen.
Listening(r) == runs[r].ret = "pending"

\* Webhook.Run.  The receiver is a value: w is a copy of the caller's Webhook,
\* so w.updates = make(...) changes the copy and the caller's Webhook keeps
\* the updates it had.
Run ==
    /\ Len(runs) < MaxRuns
    /\ LET w == webhook
           running == \E q \in 1..Len(runs) : Listening(q)
       IN  IF w.updates # NilChan
           THEN runs' = Append(runs, [ret |-> "webhook already running",
                                      updates |-> NilChan, worker |-> "none",
                                      stop |-> "none", closed |-> FALSE,
                                      whileRunning |-> running])
           ELSE LET copy == [w EXCEPT !.updates = Len(runs) + 1]
                IN  runs' = Append(runs, [ret |-> "pending",
                                          updates |-> copy.updates,
                                          worker |-> "select", stop |-> "open",
                                          closed |-> FALSE,
                                          whileRunning |-> running])
    /\ UNCHANGED webhook
    /\ UNCHANGED <<verifyVars, callVars, runVars, httpVars, apiVars>>

\* case req := <-w.updates: the Listener, still listening, hands a request to
\* the worker.
WorkerReceive(r) ==
    /\ Listening(r)
    /\ runs[r].worker = "select"
    /\ runs' = [runs EXCEPT ![r].worker = "handling"]
    /\ UNCHANGED webhook
    /\ UNCHANGED <<verifyVars, callVars, runVars, httpVars, apiVars>>

\* The body of that case: verify, report, Dispatch; then the loop goes round.
WorkerHandled(r) ==
    /\ runs[r].worker = "handling"
    /\ runs' = [runs EXCEPT ![r].worker = "select"]
    /\ UNCHANGED webhook
    /\ UNCHANGED <<verifyVars, callVars, runVars, httpVars, apiVars>>

\* case <-stop: close(w.updates); return.
WorkerStop(r) ==
    /\ runs[r].worker = "select"
    /\ runs[r].stop = "signalled"
    /\ runs' = [runs EXCEPT ![r].worker = "done", ![r].closed = TRUE]
    /\ UNCHANGED webhook
    /\ UNCHANGED <<verifyVars, callVars, runVars, httpVars, apiVars>>

\* The Listener signals stop (it closes the channel); only the Listener holds
\* it besides the worker.
ListenerSignals(r) ==
    /\ Listening(r)
    /\ runs[r].stop = "open"
    /\ runs' = [runs EXCEPT ![r].stop = "signalled"]
    /\ UNCHANGED webhook
    /\ UNCHANGED <<verifyVars, callVars, runVars, httpVars, apiVars>>

\* Listen returns, with or without an error, and Run returns what it got.
ListenReturns(r, err) ==
    /\ Listening(r)
    /\ runs' = [runs EXCEPT ![r].ret = err]
    /\ UNCHANGED webhook
    /\ UNCHANGED <<verifyVars, callVars, runVars, httpVars, apiVars>>

-----------------------------------------------------------------------------
(* Specifications. *)

InitVerify ==
    /\ vKey \in Keys
    /\ vReq \in [Signature : SigStrings, Body : Bodies]
    /\ vOut = NilResult

InitRun ==
    /\ tokenHash = 1
    /\ cfg \in [OnWebhookError : BOOLEAN, OnInHandlerError : BOOLEAN]
    /\ handlers = EmptyMap
    /\ slices = EmptyMap
    /\ arrays = <<>>
    /\ nextId = 1
    /\ bindRet = EmptyMap
    /\ oncePc = [c \in OnceCallers |-> Idle]
    /\ deliveries = <<>>
    /\ wpc = "select"
    /\ dispatchLog = <<>>
    /\ webhookErrLog = <<>>
    /\ handlerErrLog = <<>>
    /\ tasks = {}
    /\ invoked = {}
    /\ removedLog = {}
    /\ crashed = FALSE

\* Spec: the worker of Run receiving requests of every kind (well signed or
\* not, well formed or not), with plain handlers bound and unbound meanwhile.
InitVerifyIdle ==
    /\ vKey = 1
    /\ vReq = [Signature |-> <<>>, Body |-> [valid |-> FALSE, uid |-> "absent", utype |-> "absent"]]
    /\ vOut = NilResult

InitCallsIdle ==
    /\ cIn = NoCall
    /\ cOut = NilCallResult

InitHttpIdle ==
    /\ arrivals = <<>>
    /\ responses = EmptyMap

InitApiIdle ==
    /\ aIn = NoApiCall
    /\ aOut = NilApiResult

\* The Webhook as its constructor leaves it: no updates channel, never run.
InitLife ==
    /\ webhook = [updates |-> NilChan]
    /\ runs = <<>>

Init ==
    /\ InitRun
    /\ InitVerifyIdle
    /\ InitCallsIdle
    /\ InitHttpIdle
    /\ InitApiIdle
    /\ InitLife

Next ==
    \/ \E t \in UpdateTypes : On(t)
    \/ \E t \in UpdateTypes \cup {Wildcard} : DeleteAllHandlersFor(t)
    \/ \E body \in DeliveryBodies : \E sig \in DeliverySigs(tokenHash, body), bw \in BOOLEAN :
          Receive(body, sig, bw)
    \/ \E derr \in {Nil, "failed"} : Dispatch(derr)
    \/ DispatchNilPanics
    \/ \E task \in tasks : Invoke(task)

Spec == Init /\ [][Next]_vars

\* SpecRegistry: the registry under On, Once, DeleteHandler and
\* DeleteAllHandlersFor while well-signed, well-formed requests are dispatched
\* and their handlers run.
InitRegistry ==
    /\ Init
    /\ cfg = [OnWebhookError |-> TRUE, OnInHandlerError |-> TRUE]

ValidBodies == {b \in DeliveryBodies : ~Unmarshal(b).err}

NextRegistry ==
    \/ \E t \in UpdateTypes : On(t)
    \/ \E c \in OnceCallers, t \in UpdateTypes : OnceLen(c, t)
    \/ \E c \in OnceCallers, t \in UpdateTypes : OnceLenRace(c, t)
    \/ \E c \in OnceCallers : OnceBind(c)
    \/ \E t \in UpdateTypes, i \in 0..(MaxHandlers - 1) : DeleteHandler(t, i)
    \/ \E t \in UpdateTypes \cup {Wildcard} : DeleteAllHandlersFor(t)
    \/ \E body \in ValidBodies : Receive(body, EncodeToString(HMAC(tokenHash, body)), TRUE)
    \/ Dispatch(Nil)
    \/ \E task \in tasks : Invoke(task)
    \/ \E task \in tasks : WrapperRead(task)
    \/ \E task \in tasks : WrapperAppend(task)
    \/ \E task \in tasks : WrapperWrite(task)
    \/ \E task \in tasks, other \in tasks : MapRaceWithWrapper(task, other)
    \/ \E task \in tasks : MapRaceWithLookup(task)
    \/ \E task \in tasks : MapRaceWithClient(task)

SpecRegistry == InitRegistry /\ [][NextRegistry]_vars

\* SpecVerify: Webhook.verify alone, on every key, signature and body.
InitV ==
    /\ InitVerify
    /\ InitRun
    /\ InitCallsIdle
    /\ InitHttpIdle
    /\ InitApiIdle
    /\ InitLife
    /\ cfg = [OnWebhookError |-> TRUE, OnInHandlerError |-> TRUE]

NextV == VerifyCall

SpecVerify == InitV /\ [][NextV]_vars

\* SpecCalls: the calls of the registry alone, on every registry and argument.
InitC ==
    /\ InitRun
    /\ InitVerifyIdle
    /\ InitHttpIdle
    /\ InitApiIdle
    /\ InitLife
    /\ cfg = [OnWebhookError |-> TRUE, OnInHandlerError |-> TRUE]
    /\ cIn \in CallInputs
    /\ cOut = NilCallResult

NextC ==
    \/ CallOn
    \/ CallDeleteHandler
    \/ CallDeleteAllHandlersFor

SpecCalls == InitC /\ [][NextC]_vars

\* SpecHttp: requests posted to the Listener, handed to the worker, dispatched
\* and answered, while handlers are bound. The task that serves a request runs
\* on whenever it can (weak fairness of Respond); nothing is assumed of the
\* worker, of the Dispatcher or of the handlers.
InitHttp ==
    /\ Init
    /\ cfg = [OnWebhookError |-> TRUE, OnInHandlerError |-> TRUE]

NextHttp ==
    \/ \E t \in UpdateTypes : On(t)
    \/ \E body \in HttpBodies : \E sig \in DeliverySigs(tokenHash, body) : Post(body, sig)
    \/ Listen
    \/ Dispatch(Nil)
    \/ DispatchNilPanics
    \/ DispatchHangs
    \/ \E task \in tasks : Invoke(task)
    \/ \E d \in 1..MaxDeliveries : Respond(d)

SpecHttp ==
    /\ InitHttp
    /\ [][NextHttp]_vars
    /\ \A d \in 1..MaxDeliveries : WF_vars(Respond(d))

\* SpecApi: the calls of the REST client alone, on every argument.
InitA ==
    /\ InitRun
    /\ InitVerifyIdle
    /\ InitCallsIdle
    /\ InitHttpIdle
    /\ InitLife
    /\ cfg = [OnWebhookError |-> TRUE, OnInHandlerError |-> TRUE]
    /\ aIn \in ApiInputs
    /\ aOut = NilApiResult

NextA ==
    \/ CallQueryParams
    \/ CallGetInvoices
    \/ CallApiCall
    \/ CallNewClient

SpecApi == InitA /\ [][NextA]_vars

\* SpecLife: Run called on one Webhook, its workers and its Listeners.
InitL ==
    /\ Init
    /\ cfg = [OnWebhookError |-> TRUE, OnInHandlerError |-> TRUE]

NextL ==
    \/ Run
    \/ \E r \in 1..Len(runs) : WorkerReceive(r)
    \/ \E r \in 1..Len(runs) : WorkerHandled(r)
    \/ \E r \in 1..Len(runs) : WorkerStop(r)
    \/ \E r \in 1..Len(runs) : ListenerSignals(r)
    \/ \E r \in 1..Len(runs), err \in {Nil, "listen failed"} : ListenReturns(r, err)

SpecLife == InitL /\ [][NextL]_vars

-----------------------------------------------------------------------------
(* Claims. *)

Delivered == 1..Len(deliveries)

\* Number of OnWebhookError calls made for delivery d with error e.
WebhookErrCalls(d, e) ==
    Cardinality({n \in 1..Len(webhookErrLog) :
                    webhookErrLog[n].d = d /\ webhookErrLog[n].err = e})

\* C1: a delivery whose signature check fails is processed no further: its body
\* is not unmarshalled, Dispatch is not called for it and none of the handlers
\* runs for it.
C1_RejectedSignatureStops ==
    \A d \in Delivered :
        deliveries[d].err \in {"hex", "signature"} =>
            /\ ~deliveries[d].parsed
            /\ ~deliveries[d].dispatched
            /\ \A n \in 1..Len(dispatchLog) : dispatchLog[n].d # d
            /\ \A x \in invoked : x.d # d

\* C2: verify lets a request past the signature check if and only if its
\* signature header decodes to exactly the bytes HMAC(tokenHash, body).
C2_AcceptIffMac ==
    vOut.called =>
        LET sig == DecodeString(vReq.Signature)
        IN  (vOut.res.err \notin {"hex", "signature"})
                <=> (~sig.err /\ sig.bytes = HMAC(vKey, vReq.Body))

\* C2 witnessed: verify was called and the signature check passed.
C2_Witness ==
    /\ vOut.called
    /\ vOut.res.err \notin {"hex", "signature"}

\* C3: for a well-signed delivery whose body does not unmarshal, Dispatch is
\* not called (neither with nil nor with an update standing in for the missing
\* one) and none of the handlers runs.
C3_DecodeFailureStops ==
    \A d \in Delivered :
        deliveries[d].err = "unmarshal" =>
            /\ ~deliveries[d].dispatched
            /\ \A n \in 1..Len(dispatchLog) : dispatchLog[n].d # d
            /\ \A x \in invoked : x.d # d

\* C4: json.Unmarshal is called on the body of a delivery only when hmac.Equal
\* has returned true for that body; a delivery that is decoded, or whose
\* decoding failed, has passed the signature check.
C4_ParsedOnlyAfterVerified ==
    \A d \in Delivered :
        (deliveries[d].parsed \/ deliveries[d].err \in {Nil, "unmarshal"})
            => deliveries[d].macOk

\* C4 witnessed: a delivery passed the signature check and then failed to decode.
C4_Witness ==
    \E d \in Delivered :
        /\ deliveries[d].parsed
        /\ deliveries[d].macOk
        /\ deliveries[d].err = "unmarshal"

\* C5: with OnWebhookError set, every rejected delivery has caused exactly one
\* call of it, with the error verify returned.
C5_RejectionReportedOnce ==
    cfg.OnWebhookError =>
        \A d \in Delivered :
            deliveries[d].err # Nil => WebhookErrCalls(d, deliveries[d].err) = 1

\* C6: with OnInHandlerError set, an error returned by Dispatch has been passed
\* to it together with the update, and has not been passed to OnWebhookError.
C6_DispatchErrorReported ==
    cfg.OnInHandlerError =>
        \A d \in Delivered :
            (deliveries[d].dispatched /\ deliveries[d].derr # Nil) =>
                /\ \E n \in 1..Len(handlerErrLog) :
                      /\ handlerErrLog[n].d = d
                      /\ handlerErrLog[n].err = deliveries[d].derr
                      /\ handlerErrLog[n].upd = deliveries[d].upd
                /\ WebhookErrCalls(d, deliveries[d].derr) = 0

\* Whether a handler with this id is registered for some type.
Registered(id) ==
    \E t \in DOMAIN handlers : \E k \in 1..Len(handlers[t]) : handlers[t][k].id = id

\* The once-wrappers that were bound at the very index they had recorded (no
\* other registration came between the two statements of Once).
WellRecorded(id) ==
    /\ id \in DOMAIN bindRet
    /\ bindRet[id].once
    /\ bindRet[id].i = bindRet[id].index

\* C7: a handler registered with Once is invoked for one delivery at most, also
\* when two deliveries of its type are in flight together, and is registered
\* no longer once it has removed itself.
C7_OnceFiresOnce ==
    /\ \A x \in invoked : \A y \in invoked :
          (x.once /\ x.id = y.id) => x.d = y.d
    /\ \A r \in removedLog :
          (WellRecorded(r.by) /\ r.removed = r.by) => ~Registered(r.by)

\* C8: the entry a once-wrapper removes when it fires is the wrapper itself,
\* whatever was bound or unbound since it was registered.
C8_OnceRemovesItself ==
    \A r \in removedLog :
        (WellRecorded(r.by) /\ r.removed # 0) => r.removed = r.by

\* C9: every handler invoked for a delivery is the one that stood at that
\* position of the sequence when the delivery was looked up, and every position
\* of that sequence is either still to be invoked or has been invoked: nothing
\* bound or removed since the lookup adds, drops or replaces an invocation.
C9_InFlightUsesSnapshot ==
    /\ \A x \in invoked :
          /\ x.k \in 1..Len(deliveries[x.d].snapshot)
          /\ deliveries[x.d].snapshot[x.k].id = x.id
    /\ \A d \in Delivered : \A k \in 1..Len(deliveries[d].snapshot) :
          (\E task \in tasks : task.d = d /\ task.k = k /\ task.pc = "call")
              # (\E x \in invoked : x.d = d /\ x.k = k)

\* C9 witnessed: a once-wrapper at the head of a looked-up sequence has removed
\* itself, and a later handler of the same delivery was invoked after the
\* registry had changed.
C9_Witness ==
    \E x \in invoked :
        /\ x.stale
        /\ x.k > 1
        /\ \E r \in removedLog :
              /\ r.by = deliveries[x.d].snapshot[1].id
              /\ r.removed = r.by

\* C10: the index a once-wrapper has recorded for itself is the index Bind gave
\* it, whatever other registrations ran at the same time.
C10_RecordedIndexIsPosition ==
    \A id \in DOMAIN bindRet :
        bindRet[id].once => bindRet[id].i = bindRet[id].index

\* The sequence of the call's update type before and after the call.
CallBefore == Get(cIn.m, cIn.t)
CallAfter == Get(cOut.handlers, cIn.t)

\* Whether the index of a DeleteHandler call lies within the sequence.
CallInRange == 0 <= cIn.i /\ cIn.i < Len(CallBefore)

\* C18: On(t, h) leaves a sequence for t that is the one before the call (none
\* counts as empty) with h appended: every handler bound before keeps its
\* position, and the index returned is the length before the call.
C18_BindAppends ==
    (cOut.called /\ cIn.op = "On") =>
        /\ cIn.t \in DOMAIN cOut.handlers
        /\ Len(CallAfter) = Len(CallBefore) + 1
        /\ \A k \in 1..Len(CallBefore) : CallAfter[k] = CallBefore[k]
        /\ CallAfter[Len(CallAfter)] = NewHandler(cIn.t)
        /\ cOut.ret = Index(Len(CallBefore))

\* C18 witnessed: On was called for a type that had two handlers already.
C18_Witness ==
    /\ cOut.called
    /\ cIn.op = "On"
    /\ Len(CallBefore) = 2
    /\ cOut.ret = Index(2)

\* C19: DeleteHandler(t, i) with 0 <= i < n on n handlers leaves n - 1 of them:
\* those before index i stay where they were, every one after i stands one
\* index lower.
C19_UnbindShiftsDown ==
    (cOut.called /\ cIn.op = "DeleteHandler" /\ CallInRange) =>
        /\ Len(CallAfter) = Len(CallBefore) - 1
        /\ \A k \in 0..(cIn.i - 1) : CallAfter[k + 1] = CallBefore[k + 1]
        /\ \A k \in (cIn.i + 1)..(Len(CallBefore) - 1) : CallAfter[k] = CallBefore[k + 1]

\* C19 witnessed: the middle one of three handlers was removed.
C19_Witness ==
    /\ cOut.called
    /\ cIn.op = "DeleteHandler"
    /\ Len(CallBefore) = 3
    /\ cIn.i = 1
    /\ Len(CallAfter) = 2

\* C20: DeleteHandler(t, i) with i outside 0..n-1 hands an error back to its
\* caller and leaves the registry as it was.
C20_OutOfRangeIsError ==
    (cOut.called /\ cIn.op = "DeleteHandler" /\ ~CallInRange) =>
        /\ cOut.ret.kind = "error"
        /\ cOut.handlers = cIn.m

\* C14: a request whose signature header does not hex-decode ends as one whose
\* MAC is wrong does: verify returns ErrorWrongSignature and no update, and the
\* body is not unmarshalled.
C14_UndecodableIsMismatch ==
    (vOut.called /\ DecodeString(vReq.Signature).err) =>
        /\ vOut.res.err = ErrorWrongSignature
        /\ vOut.res.update.isNil
        /\ ~vOut.res.parsed

\* Whether the once-wrapper with this id has panicked in its removal.
Panicked(id) == [by |-> id, removed |-> 0] \in removedLog

\* C16: when a handler invoked for a delivery has failed, every other handler of
\* the sequence looked up for that delivery has been invoked or is still going
\* to be: here the failure is the panic of a once-wrapper, after which the
\* process runs nothing any more.
C16_FailureDoesNotStopOthers ==
    \A x \in invoked :
        Panicked(x.id) =>
            \A k \in 1..Len(deliveries[x.d].snapshot) :
                \/ \E y \in invoked : y.d = x.d /\ y.k = k
                \/ ~crashed

\* The invocations of delivery d that have happened.
Done(d) == {x \in invoked : x.d = d}

Accepted(d) == d \in Delivered /\ deliveries[d].err = Nil

C12_HandledBeforeResponse ==
    \A d \in DOMAIN responses :
        (Accepted(d) /\ Len(deliveries[d].snapshot) > 0) =>
            /\ responses[d].status = StatusOK
            /\ deliveries[d].upd.Id = -1
            /\ \A k \in 1..Len(deliveries[d].snapshot) :
                  \E x \in invoked : x.d = d /\ x.k = k

\* C13: no request waits at the Listener while the worker is inside a Dispatch
\* call that never returns; the worker never leaves such a call, so a request
\* waiting then is never verified nor dispatched.
C13_LaterDeliveriesNotBlocked ==
    wpc = "hung" => Len(arrivals) = Len(deliveries)

\* Whether the signature header of a posted request is the MAC of its body.
WellSigned(req) ==
    /\ ~DecodeString(req.sig).err
    /\ DecodeString(req.sig).bytes = HMAC(tokenHash, req.body)

\* C15: the response to a request without a signature header, or with one that
\* is not the MAC of its body, is a 400 with the body "wrong request
\* signature", and no handler is invoked for it.
C15_BadSignatureIs400 ==
    \A d \in DOMAIN responses :
        ~WellSigned(arrivals[d]) =>
            /\ responses[d] = [status |-> 400, body |-> "wrong request signature"]
            /\ \A x \in invoked : x.d # d

\* C21: DeleteAllHandlersFor(t) for an update type t removes the entry of t and
\* leaves the entry of every other update type as it was.
C21_UnbindAllForFrame ==
    (cOut.called /\ cIn.op = "DeleteAllHandlersFor" /\ cIn.t # Wildcard) =>
        /\ cIn.t \notin DOMAIN cOut.handlers
        /\ DOMAIN cOut.handlers = (DOMAIN cIn.m) \ {cIn.t}
        /\ \A x \in DOMAIN cOut.handlers : cOut.handlers[x] = cIn.m[x]

\* C21 witnessed: the handlers of one type were deleted while another type had
\* handlers, which are still there.
C21_Witness ==
    /\ cOut.called
    /\ cIn.op = "DeleteAllHandlersFor"
    /\ cIn.t = "test"
    /\ Len(Get(cIn.m, "test")) = 2
    /\ Len(Get(cOut.handlers, "invoice_paid")) = 3

\* C22: DeleteAllHandlersFor("*") leaves a registry in which no update type has
\* an entry, whatever it held before.
C22_WildcardEmpties ==
    (cOut.called /\ cIn.op = "DeleteAllHandlersFor" /\ cIn.t = Wildcard) =>
        /\ DOMAIN cOut.handlers = {}
        /\ \A x \in UpdateTypes : Len(Get(cOut.handlers, x)) = 0

\* C22 witnessed: "*" was deleted on a registry with handlers of both types.
C22_Witness ==
    /\ cOut.called
    /\ cIn.op = "DeleteAllHandlersFor"
    /\ cIn.t = Wildcard
    /\ \A x \in UpdateTypes : Len(Get(cIn.m, x)) > 0
    /\ DOMAIN cOut.handlers = {}

\* C23: verify of a well-signed JSON body without the update_type member, or
\* without the update_id member, returns a decode error and no update.
C23_MissingFieldIsDecodeError ==
    (/\ vOut.called
     /\ vOut.res.macOk
     /\ vReq.Body.valid
     /\ (vReq.Body.utype = "absent" \/ vReq.Body.uid = "absent")) =>
        /\ vOut.res.err = "unmarshal"
        /\ vOut.res.update.isNil

\* C24: the process is never ended by a panic, whatever deliveries arrive and
\* whatever is bound, unbound or registered with Once.
C24_NeverFatal == ~crashed

\* Number of calls of Dispatch made for delivery d.
DispatchCalls(d) ==
    Cardinality({n \in 1..Len(dispatchLog) : dispatchLog[n].d = d})

\* C25: Dispatch is called at most once for a delivery, and only for the
\* delivery the worker has verified last; whatever verify or Dispatch returned,
\* the worker is back at its select with every delivery dispatched once, and
\* the calls were made in the order of the deliveries.
C25_NoRedispatch ==
    /\ \A d \in Delivered : DispatchCalls(d) <= 1
    /\ \A n \in 1..Len(dispatchLog) : dispatchLog[n].d = n
    /\ Len(dispatchLog) <= Len(deliveries)
    /\ wpc = "select" => Len(dispatchLog) = Len(deliveries)

\* C25 witnessed: the Dispatch of a first delivery returned an error, a second
\* delivery was rejected by verify, and each was dispatched once.
C25_Witness ==
    /\ Len(deliveries) = 2
    /\ deliveries[1].derr # Nil
    /\ deliveries[2].err # Nil
    /\ wpc = "select"
    /\ DispatchCalls(1) = 1
    /\ DispatchCalls(2) = 1


-----------------------------------------------------------------------------
(* The REST client and the life of Run. *)

\* A finished call of Client.GetInvoices with nil options.
GetInvoicesNil == aIn.op = "GetInvoices" /\ aOut.done /\ aIn.opt.nil

\* C26: Client.GetInvoices called with nil options performs the getInvoices
\* request with no query parameters and returns what the server answered; it
\* does not panic on the nil options.
C26_NilOptionsIsEmptyQuery ==
    GetInvoicesNil =>
        /\ ~aOut.panic
        /\ aOut.url = urlFmt(TheApi, getInvoicesMethod, emptyQuery)
        /\ aOut.items = (IF aIn.server = "ok" THEN Items ELSE NoItems)
        /\ (aOut.err = Nil) <=> (aIn.server = "ok")

\* A finished call of NewClient.
NewClientDone == aIn.op = "NewClient" /\ aOut.done

\* C27: NewClient panics when the token is empty; with a token it builds the
\* API client on the token, on http.DefaultClient when no HttpClient is set
\* and on MainNetHost when no ApiHost is set, and on the given ones otherwise.
C27_NewClientDefaults ==
    NewClientDone =>
        IF aIn.settings.Token = "" THEN aOut.panic
        ELSE /\ ~aOut.panic
             /\ aOut.api.token = aIn.settings.Token
             /\ aOut.api.httpClient = (IF aIn.settings.HttpClient = Nil
                                       THEN DefaultClient
                                       ELSE aIn.settings.HttpClient)
             /\ aOut.api.url = (IF aIn.settings.ApiHost = "" THEN MainNetHost
                                ELSE aIn.settings.ApiHost)

\* NewClient has returned a client built from a token alone: both defaults
\* were taken.
C27_Witness ==
    /\ NewClientDone
    /\ aIn.settings.Token # ""
    /\ aIn.settings.HttpClient = Nil
    /\ aIn.settings.ApiHost = ""
    /\ ~aOut.panic
    /\ aOut.api.url = MainNetHost
    /\ aOut.api.httpClient = DefaultClient

\* C28: Run called while an earlier Run of the same Webhook is still running
\* returns "webhook already running", starts no worker and makes no new
\* updates channel.
C28_SecondRunRefused ==
    \A r \in 1..Len(runs) :
        runs[r].whileRunning =>
            /\ runs[r].ret = "webhook already running"
            /\ runs[r].worker = "none"
            /\ runs[r].updates = NilChan

\* C29: once Run has returned what Listen returned, its worker has terminated
\* or is about to (it is handling a request, or stop has been signalled): it
\* is not left in its select with no one to signal stop.
C29_WorkerNotLeftBlocked ==
    \A r \in 1..Len(runs) :
        runs[r].ret \in {Nil, "listen failed"} =>
            ~(runs[r].worker = "select" /\ runs[r].stop = "open")

\* The count parameter with the value of Count is in what QueryParams
\* returned.
CountSent ==
    LET v == Itoa(aIn.opt.Count)
    IN  IF aIn.version = "ApiCore"
        THEN \E i \in 1..Len(aOut.query) :
                /\ aOut.query[i] = "count"
                /\ i + 1 + Len(v) <= Len(aOut.query)
                /\ aOut.query[i + 1] = "="
                /\ SubSeq(aOut.query, i + 2, i + 1 + Len(v)) = v
                /\ (i + 1 + Len(v) < Len(aOut.query)
                       => aOut.query[i + 2 + Len(v)] = "&")
        ELSE /\ ~aOut.panic
             /\ "count" \in DOMAIN aOut.val
             /\ aOut.val["count"] = v

\* C30: whenever GetInvoicesOptions.QueryParams returns, it sends count for
\* every Count from 1 to 1000 inclusive except 100, and sends no count for 100
\* and for a Count outside 1..1000.
C30_CountSentFrom1To1000 ==
    (aIn.op = "QueryParams" /\ aOut.done /\ ~aOut.panic) =>
        (CountSent <=> (aIn.opt.Count \in 1..1000 /\ aIn.opt.Count # 100))

=============================================================================
